---- MODULE Spec2Model ----
(***************************************************************************)
(* Model of build-tokenlist.js: a script that resolves a chain key against *)
(* CHAIN_CONFIG, GETs the CoinGecko coin list for the chain's platform,    *)
(* turns the records that carry a contract address into token entries and  *)
(* writes <chainKey>-tokenlist.json.                                       *)
(*                                                                         *)
(* JavaScript values are tagged records.  A string is a sequence of atoms: *)
(* an atom is one character ("a", "B") or an opaque literal chunk          *)
(* ("-tokenlist.json"); template literals are concatenations of atoms.     *)
(***************************************************************************)
EXTENDS Integers, Sequences, FiniteSets, TLC

\* ---------------------------------------------------------------- bounds
MaxLen == 3        \* longest record sequence handed to transformCoinGeckoData
MaxBodyLen == 1    \* longest array body a GET answers with in a run
MaxRuns == 2       \* launches of the script
MaxClock == 1      \* latest instant the clock reaches

\* ------------------------------------------------------- JavaScript values
Undefined == [type |-> "undefined"]
Null == [type |-> "null"]
Str(s) == [type |-> "string", chars |-> s]
Num(n) == [type |-> "number", num |-> n]
Arr(s) == [type |-> "array", items |-> s]
Obj(p) == [type |-> "object", props |-> p]

\* the value a thrown TypeError leaves in place of a result
TypeError == [type |-> "TypeError"]

\* new Date().toISOString() at instant t: a string that names the instant
toISOString(t) == [type |-> "string", instant |-> t]

\* the empty property map of {}
NoProps == [k \in {} |-> Undefined]

\* ToBoolean, as used by `!address`, `||` and `!CHAIN_CONFIG[chainKey]`
Truthy(v) ==
  /\ v.type \notin {"undefined", "null"}
  /\ (v.type = "string" /\ "chars" \in DOMAIN v) => v.chars # << >>
  /\ v.type = "number" => v.num # 0

\* what every plain object inherits: Object.prototype's own properties
ObjectPrototype ==
  (<<"constructor">> :> [type |-> "function", props |-> [name |-> Str(<<"Object">>)]])
  @@ (<<"__proto__">> :> Obj(NoProps))
  @@ (<<"toString">> :> [type |-> "function", props |-> [name |-> Str(<<"toString">>)]])

\* obj.key for a key written in the source (chainCfg.name, item.platforms)
Get(obj, key) ==
  IF obj.type \in {"object", "function"} /\ key \in DOMAIN obj.props
  THEN obj.props[key] ELSE Undefined

\* obj[key] for a computed key: own property, else the prototype's
GetComputed(obj, key) ==
  IF obj.type # "object" THEN Undefined
  ELSE IF key \in DOMAIN obj.props THEN obj.props[key]
  ELSE IF key \in DOMAIN ObjectPrototype THEN ObjectPrototype[key]
  ELSE Undefined

\* `${v}` in a template literal
ToStr(v) == IF v.type = "undefined" THEN <<"undefined">> ELSE v.chars

\* String.prototype.toUpperCase, character by character
UpperChar(c) ==
  CASE c = "a" -> "A"
    [] c = "b" -> "B"
    [] c = "x" -> "X"
    [] OTHER -> c

toUpperCase(s) == Str([i \in 1..Len(s.chars) |-> UpperChar(s.chars[i])])

\* the symbol copied without upper-casing
NormSymbolAsIs(symbol) ==
  IF symbol.type = "string" THEN symbol ELSE Str(<< >>)

\* item.symbol?.toUpperCase() || ""
NormSymbol(symbol) ==
  LET up == IF symbol.type \in {"undefined", "null"} THEN Undefined
            ELSE toUpperCase(symbol)
  IN IF Truthy(up) THEN up ELSE Str(<< >>)

\* item.platforms?.[chainCfg.coingeckoPlatform]
AddressOf(item, chainCfg) ==
  LET platforms == Get(item, "platforms")
  IN IF platforms.type \in {"undefined", "null"} THEN Undefined
     ELSE GetComputed(platforms, ToStr(Get(chainCfg, "coingeckoPlatform")))

\* ------------------------------------------------------------ CHAIN_CONFIG
Cfg(id, platform, name) ==
  Obj([chainId |-> Num(id), coingeckoPlatform |-> Str(<<platform>>),
       name |-> Str(<<name>>), decimals |-> Num(18)])

CHAIN_CONFIG ==
  Obj((<<"base">> :> Cfg(8453, "base", "Base Token List"))
      @@ (<<"bsc">> :> Cfg(56, "binance-smart-chain", "BSC Token List"))
      @@ (<<"ethereum">> :> Cfg(1, "ethereum", "Ethereum Token List"))
      @@ (<<"polygon">> :> Cfg(137, "polygon-pos", "Polygon Token List")))

\* ------------------------------------------------- transformCoinGeckoData
\* the object literal pushed for an item that has an address
TokenOf(item, chainCfg) ==
  Obj([chainId |-> Get(chainCfg, "chainId"),
       address |-> AddressOf(item, chainCfg),
       name |-> Get(item, "name"),
       symbol |-> NormSymbol(Get(item, "symbol")),
       decimals |-> Get(chainCfg, "decimals"),
       logoURI |-> Str(<< >>)])

\* what `for (let item of geckoData)` iterates: the elements of an array,
\* the characters of a string; nothing else is iterable
Iterable(geckoData) == geckoData.type \in {"array", "string"}

Elements(geckoData) ==
  IF geckoData.type = "array" THEN geckoData.items
  ELSE [i \in 1..Len(geckoData.chars) |-> Str(<<geckoData.chars[i]>>)]

\* the loop with unshift in place of push
RECURSIVE transformLoopUnshift(_, _, _, _)
transformLoopUnshift(elems, chainCfg, i, tokens) ==
  IF i > Len(elems) THEN Arr(tokens)
  ELSE LET item == elems[i]
       IN IF item.type \in {"undefined", "null"} THEN TypeError
          ELSE IF ~Truthy(AddressOf(item, chainCfg))
          THEN transformLoopUnshift(elems, chainCfg, i + 1, tokens)
          ELSE transformLoopUnshift(elems, chainCfg, i + 1,
                                    <<TokenOf(item, chainCfg)>> \o tokens)

RECURSIVE transformLoop(_, _, _, _)
transformLoop(elems, chainCfg, i, tokens) ==
  IF i > Len(elems) THEN Arr(tokens)
  ELSE LET item == elems[i]
       IN IF item.type \in {"undefined", "null"} THEN TypeError
          ELSE IF ~Truthy(AddressOf(item, chainCfg))
          THEN transformLoop(elems, chainCfg, i + 1, tokens)
          ELSE transformLoop(elems, chainCfg, i + 1,
                             Append(tokens, TokenOf(item, chainCfg)))

transformCoinGeckoData(geckoData, chainCfg) ==
  IF ~Iterable(geckoData) THEN TypeError
  ELSE transformLoop(Elements(geckoData), chainCfg, 1, << >>)

\* ------------------------------------------------------ upstream records
\* a parsed JSON object holds only the keys the body gave it
Present(key, v) == IF v = Undefined THEN NoProps ELSE (key :> v)

Item(name, symbol, platforms) ==
  Obj(Present("name", name) @@ Present("symbol", symbol)
      @@ Present("platforms", platforms))

PlatformValues ==
  { Undefined, Null, Obj(NoProps),
    Obj(<<"base">> :> Str(<<"0", "x", "1">>)),
    Obj(<<"base">> :> Str(<< >>)),
    Obj(<<"ethereum">> :> Str(<<"0", "x", "2">>)),
    Obj((<<"base">> :> Str(<<"0", "x", "3">>))
        @@ (<<"polygon-pos">> :> Str(<<"0", "x", "4">>))
        @@ (<<"binance-smart-chain">> :> Null)) }

SymbolValues == { Undefined, Null, Str(<< >>), Str(<<"a", "B">>), Str(<<"x", "1">>) }

NameValues == { Undefined, Str(<<"T", "k">>) }

Records ==
  { Item(Str(<<"T", "k">>), Str(<<"a", "B">>), p) : p \in PlatformValues }
  \cup { Item(n, s, Obj((<<"base">> :> Str(<<"0", "x", "5">>))
                        @@ (<<"ethereum">> :> Str(<<"0", "x", "6">>))))
         : n \in NameValues, s \in SymbolValues }

SeqsUpTo(S, n) == UNION { [1..k -> S] : k \in 0..n }

Configs == { CHAIN_CONFIG.props[k] : k \in DOMAIN CHAIN_CONFIG.props }

\* ------------------------------------------------------------ JSON text
\* JSON.stringify: a property whose value is undefined or a function is
\* left out of an object, and an undefined array element is written as null
RECURSIVE Serialize(_)
Serialize(v) ==
  IF v.type = "object"
  THEN Obj([k \in { q \in DOMAIN v.props :
                      v.props[q].type \notin {"undefined", "function"} }
              |-> Serialize(v.props[k])])
  ELSE IF v.type = "array"
  THEN Arr([i \in 1..Len(v.items) |->
              IF v.items[i].type \in {"undefined", "function"} THEN Null
              ELSE Serialize(v.items[i])])
  ELSE v

\* the text of a file: the JSON tree it spells out, indented by `indent`
JSONstringify(v, indent) == [text |-> Serialize(v), indent |-> indent]

JSONparse(file) == file.text

\* ------------------------------------------------------- the script's run
\* process.argv[2]: absent, a table key, or anything else
Args ==
  { Undefined, Str(<<"base">>), Str(<<"bsc">>), Str(<<"ethereum">>),
    Str(<<"polygon">>), Str(<<"not-a-chain">>), Str(<<"constructor">>) }

AllSlugs ==
  (<<"base">> :> Str(<<"0", "x", "1">>))
  @@ (<<"binance-smart-chain">> :> Str(<<"0", "x", "2">>))
  @@ (<<"ethereum">> :> Str(<<"0", "x", "3">>))
  @@ (<<"polygon-pos">> :> Str(<<"0", "x", "4">>))

\* the records a response body is made of in a run
BodyRecords ==
  { Item(Str(<<"T", "k">>), Str(<<"a", "B">>), Obj(AllSlugs)),
    Item(Undefined, Undefined,
         Obj((<<"undefined">> :> Str(<<"0", "x", "7">>)) @@ AllSlugs)) }

\* response.data of a fulfilled GET: an array of records, the raw text of a
\* body that is not JSON, or a JSON object
Bodies ==
  { Arr(q) : q \in SeqsUpTo(BodyRecords, MaxBodyLen) }
  \cup { Str(<<"<", "h", ">">>), Obj(NoProps) }

None == [type |-> "none"]

VARIABLES tIn, tCfg, tOut, tDone,
          argv2, pc, chainKey, tokenListBase, requests, outcome, trace,
          fs, stderr, stdout, exitCode, now, run, prev

tvars == <<tIn, tCfg, tOut, tDone>>

runvars == <<argv2, pc, chainKey, tokenListBase, requests, outcome, trace,
             fs, stderr, stdout, exitCode, now, run, prev>>

vars == <<tvars, runvars>>

\* the default taken from another row of the table
ChainKeyOfDefaultEthereum(arg) == IF Truthy(arg) THEN arg ELSE Str(<<"ethereum">>)

\* const chainKey = process.argv[2] || "base"
ChainKeyOf(arg) == IF Truthy(arg) THEN arg ELSE Str(<<"base">>)

\* `${chainKey}-tokenlist.json`
outputFileName(key) == Str(ToStr(key) \o <<"-tokenlist.json">>)

\* the URL template of fetchTokensFromCoinGecko
UrlOf(platform) ==
  Str(<<"https://api.coingecko.com/api/v3/coins/list?platform=">> \o ToStr(platform))

\* an envelope whose patch number counts up with the clock
createTokenListBaseStamped(chainCfg, key, t) ==
  Obj([name |-> Get(chainCfg, "name"),
       logoURI |-> Str(<<"https://example.com/logo.png">>),
       keywords |-> Arr(<<key, Str(<<"tokenlist">>)>>),
       timestamp |-> toISOString(t),
       version |-> Obj([major |-> Num(1), minor |-> Num(0), patch |-> Num(t)]),
       tokens |-> Arr(<< >>)])

createTokenListBase(chainCfg, key, t) ==
  Obj([name |-> Get(chainCfg, "name"),
       logoURI |-> Str(<<"https://example.com/logo.png">>),
       keywords |-> Arr(<<key, Str(<<"tokenlist">>)>>),
       timestamp |-> toISOString(t),
       version |-> Obj([major |-> Num(1), minor |-> Num(0), patch |-> Num(0)]),
       tokens |-> Arr(<< >>)])

\* the envelope completed without taking the time again
finishTokenListStale(base, tokenItems, t) ==
  Obj([base.props EXCEPT !.tokens = tokenItems])

\* step 6.5 of buildTokenList: the envelope as it is serialised
finishTokenList(base, tokenItems, t) ==
  Obj([base.props EXCEPT !.timestamp = toISOString(t), !.tokens = tokenItems])

RunInit ==
  /\ argv2 \in Args
  /\ pc = "start"
  /\ chainKey = Undefined
  /\ tokenListBase = Undefined
  /\ requests = << >>
  /\ outcome = None
  /\ trace = << >>
  /\ fs = NoProps
  /\ stderr = << >>
  /\ stdout = << >>
  /\ exitCode = None
  /\ now = 0
  /\ run = 1
  /\ prev = None

TIdle ==
  /\ tIn = << >>
  /\ tCfg = CHAIN_CONFIG.props[<<"base">>]
  /\ tOut = Undefined
  /\ tDone = FALSE

RunIdle ==
  /\ argv2 = Undefined
  /\ pc = "idle"
  /\ chainKey = Undefined
  /\ tokenListBase = Undefined
  /\ requests = << >>
  /\ outcome = None
  /\ trace = << >>
  /\ fs = NoProps
  /\ stderr = << >>
  /\ stdout = << >>
  /\ exitCode = None
  /\ now = 0
  /\ run = 1
  /\ prev = None

Init == RunInit /\ TIdle

\* lines 54-62: the key has no truthy entry in CHAIN_CONFIG
StartUnsupported ==
  /\ pc = "start"
  /\ LET key == ChainKeyOf(argv2)
     IN /\ ~Truthy(GetComputed(CHAIN_CONFIG, ToStr(key)))
        /\ chainKey' = key
        /\ stderr' = Append(stderr,
             Str(<<"Unsupported chain key: ">> \o ToStr(key)
                 \o <<". Please check CHAIN_CONFIG.">>))
        /\ trace' = Append(trace, "config")
        /\ exitCode' = 1
        /\ pc' = "exited"
  /\ UNCHANGED <<argv2, tokenListBase, requests, outcome, fs, stdout, now, run, prev>>
  /\ UNCHANGED tvars

\* lines 54-62, 151 and buildTokenList up to its await: the envelope is
\* created and the GET is issued
StartBuild ==
  /\ pc = "start"
  /\ LET key == ChainKeyOf(argv2)
         chainCfg == GetComputed(CHAIN_CONFIG, ToStr(key))
     IN /\ Truthy(chainCfg)
        /\ chainKey' = key
        /\ tokenListBase' = createTokenListBase(chainCfg, key, now)
        /\ requests' = Append(requests, UrlOf(Get(chainCfg, "coingeckoPlatform")))
        /\ trace' = trace \o <<"config", "fetch">>
        /\ pc' = "awaiting"
  /\ UNCHANGED <<argv2, outcome, fs, stderr, stdout, exitCode, now, run, prev>>
  /\ UNCHANGED tvars

\* time passes while the GET is pending
Tick ==
  /\ pc = "awaiting"
  /\ now < MaxClock
  /\ now' = now + 1
  /\ UNCHANGED <<argv2, pc, chainKey, tokenListBase, requests, outcome, trace,
                 fs, stderr, stdout, exitCode, run, prev>>
  /\ UNCHANGED tvars

\* buildTokenList after the await, geckoData being what the fetch returned
Continue(geckoData, err) ==
  LET chainCfg == GetComputed(CHAIN_CONFIG, ToStr(chainKey))
      tokenItems == transformCoinGeckoData(geckoData, chainCfg)
      name == outputFileName(chainKey)
  IN IF tokenItems = TypeError
     THEN \* the rejection of buildTokenList() is handled nowhere
          /\ stderr' = err \o <<Str(<<"TypeError">>)>>
          /\ trace' = trace \o <<"settled", "transform">>
          /\ exitCode' \in {0, 1}
          /\ pc' = "exited"
          /\ UNCHANGED <<tokenListBase, fs, stdout>>
     ELSE /\ tokenListBase' = finishTokenList(tokenListBase, tokenItems, now)
          /\ fs' = (ToStr(name) :> JSONstringify(tokenListBase', 2)) @@ fs
          /\ stdout' = Append(stdout,
               Str(<<"Token List for [">> \o ToStr(chainKey)
                   \o <<"] built: ">> \o ToStr(name)))
          /\ stderr' = err
          /\ trace' = trace \o <<"settled", "transform", "write">>
          /\ exitCode' = 0
          /\ pc' = "exited"

\* the GET is fulfilled: fetchTokensFromCoinGecko returns response.data,
\* whatever its type, and buildTokenList goes on to the end
GetFulfilled ==
  /\ pc = "awaiting"
  /\ \E data \in Bodies :
       /\ outcome' = [type |-> "fulfilled", data |-> data]
       /\ Continue(data, stderr)
  /\ UNCHANGED <<argv2, chainKey, requests, now, run, prev>>
  /\ UNCHANGED tvars

\* a catch block that reports and returns nothing
fetchCatchResultNone == Undefined

\* what the catch block of fetchTokensFromCoinGecko returns
fetchCatchResult == Arr(<< >>)

\* the GET is rejected: the catch block reports it and returns []
GetRejected ==
  /\ pc = "awaiting"
  /\ outcome' = [type |-> "rejected"]
  /\ Continue(fetchCatchResult, Append(stderr, Str(<<"fetch failed: ">> \o <<"err.message">>)))
  /\ UNCHANGED <<argv2, chainKey, requests, now, run, prev>>
  /\ UNCHANGED tvars

\* what a finished run leaves behind for comparison with the next one
Summary ==
  [chainKey |-> chainKey, outcome |-> outcome, exitCode |-> exitCode,
   fileName |-> outputFileName(chainKey),
   file |-> IF trace # << >> /\ trace[Len(trace)] = "write"
            THEN fs[ToStr(outputFileName(chainKey))] ELSE None]

\* the script is launched again in the same directory
Relaunch ==
  /\ pc = "exited"
  /\ run < MaxRuns
  /\ run' = run + 1
  /\ prev' = Summary
  /\ argv2' \in Args
  /\ pc' = "start"
  /\ chainKey' = Undefined
  /\ tokenListBase' = Undefined
  /\ requests' = << >>
  /\ outcome' = None
  /\ trace' = << >>
  /\ stderr' = << >>
  /\ stdout' = << >>
  /\ exitCode' = None
  /\ UNCHANGED <<fs, now>>
  /\ UNCHANGED tvars

Next ==
  \/ StartUnsupported
  \/ StartBuild
  \/ Tick
  \/ GetFulfilled
  \/ GetRejected
  \/ Relaunch

Spec == Init /\ [][Next]_vars

\* ----------------------------------- the transformer as a function on its own
TInit ==
  /\ tIn \in SeqsUpTo(Records, MaxLen)
  /\ tCfg \in Configs
  /\ tOut = Undefined
  /\ tDone = FALSE
  /\ RunIdle

ApplyTransform ==
  /\ ~tDone
  /\ tOut' = transformCoinGeckoData(Arr(tIn), tCfg)
  /\ tDone' = TRUE
  /\ UNCHANGED <<tIn, tCfg>>
  /\ UNCHANGED runvars

TNext == ApplyTransform

SpecT == TInit /\ [][TNext]_vars

\* ----------------------------------------------- claims on the transformer
\* the platform slug of the configuration under test
tSlug == tCfg.props.coingeckoPlatform.chars

\* a record carries a non-empty contract address under the slug
Carries(rec, slug) ==
  /\ "platforms" \in DOMAIN rec.props
  /\ rec.props.platforms.type = "object"
  /\ slug \in DOMAIN rec.props.platforms.props
  /\ rec.props.platforms.props[slug].type = "string"
  /\ Len(rec.props.platforms.props[slug].chars) > 0

tKept == { i \in 1..Len(tIn) : Carries(tIn[i], tSlug) }

\* position in the output of the kept record at input position i
tRank(i) == Cardinality({ j \in tKept : j <= i })

\* C3: the transformer's output is exactly the records that carry a
\* non-empty address under the slug, one token each, in input order; every
\* token's address is non-empty and no record makes the transformer throw.
C3_TransformIsOrderedAddressFilter ==
  tDone =>
    /\ tOut.type = "array"
    /\ Len(tOut.items) = Cardinality(tKept)
    /\ \A i \in tKept :
         /\ tOut.items[tRank(i)].props.address = tIn[i].props.platforms.props[tSlug]
         /\ tOut.items[tRank(i)].props.name = Get(tIn[i], "name")
    /\ \A j \in 1..Len(tOut.items) :
         /\ tOut.items[j].props.address.type = "string"
         /\ tOut.items[j].props.address.chars # << >>

C3_Witness ==
  /\ tDone
  /\ Len(tIn) = 3
  /\ tKept = {1, 3}
  /\ "platforms" \notin DOMAIN tIn[2].props
  /\ Len(tOut.items) = 2
  /\ tOut.items[1].props.address # tOut.items[2].props.address

LowerToUpper == { <<"a", "A">>, <<"b", "B">>, <<"x", "X">> }

IsUpperOf(u, s) ==
  /\ Len(u) = Len(s)
  /\ \A k \in 1..Len(s) :
       IF \E p \in LowerToUpper : p[1] = s[k]
       THEN <<s[k], u[k]>> \in LowerToUpper
       ELSE u[k] = s[k]

\* C4: each token carries the config's chainId and decimals, the source
\* record's name, an empty logoURI, and the upper-cased source symbol when
\* the record has a symbol string, the empty string otherwise.
C4_TokenFields ==
  tDone =>
    \A i \in tKept :
      LET tok == tOut.items[tRank(i)].props
          src == tIn[i].props
      IN /\ DOMAIN tok = {"chainId", "address", "name", "symbol", "decimals", "logoURI"}
         /\ tok.chainId = tCfg.props.chainId
         /\ tok.decimals = tCfg.props.decimals
         /\ tok.name = (IF "name" \in DOMAIN src THEN src.name ELSE Undefined)
         /\ tok.logoURI = Str(<< >>)
         /\ tok.symbol.type = "string"
         /\ IF "symbol" \in DOMAIN src /\ src.symbol.type = "string"
            THEN IsUpperOf(tok.symbol.chars, src.symbol.chars)
            ELSE tok.symbol.chars = << >>

C4_Witness ==
  /\ tDone
  /\ Len(tIn) = 2
  /\ Len(tOut.items) = 2
  /\ Get(tIn[1], "symbol") = Str(<<"a", "B">>)
  /\ tOut.items[1].props.symbol = Str(<<"A", "B">>)
  /\ "symbol" \notin DOMAIN tIn[2].props
  /\ tOut.items[2].props.symbol = Str(<< >>)
  /\ tOut.items[2].props.chainId = Num(8453)

\* ------------------------------------------------------ claims on the run
\* the four keys of the table and what is documented for each
SupportedKeys == { <<"base">>, <<"bsc">>, <<"ethereum">>, <<"polygon">> }

DocChainId ==
  (<<"base">> :> 8453) @@ (<<"bsc">> :> 56) @@ (<<"ethereum">> :> 1)
  @@ (<<"polygon">> :> 137)

DocSlug ==
  (<<"base">> :> "base") @@ (<<"bsc">> :> "binance-smart-chain")
  @@ (<<"ethereum">> :> "ethereum") @@ (<<"polygon">> :> "polygon-pos")

DocName ==
  (<<"base">> :> "Base Token List") @@ (<<"bsc">> :> "BSC Token List")
  @@ (<<"ethereum">> :> "Ethereum Token List")
  @@ (<<"polygon">> :> "Polygon Token List")

Supported == chainKey.type = "string" /\ chainKey.chars \in SupportedKeys

\* the run has ended by writing its file
Wrote == pc = "exited" /\ trace # << >> /\ trace[Len(trace)] = "write"

\* the file of this run, and the envelope read back from it
OutFile == fs[ToStr(outputFileName(chainKey))]

Parsed == JSONparse(OutFile).props

\* C1: a supplied, non-empty key outside the table ends the run at the
\* lookup: the key is reported, the exit status is 1, no GET is issued and
\* no file is written.
C1_UnknownKeyExits ==
  (pc # "start" /\ Truthy(argv2) /\ argv2.chars \notin SupportedKeys) =>
    /\ pc = "exited"
    /\ exitCode = 1
    /\ Len(stderr) = 1
    /\ requests = << >>
    /\ trace = <<"config">>

C5_StagesOnceInOrder ==
  (pc = "exited" /\ Supported) =>
    /\ trace = <<"config", "fetch", "settled", "transform", "write">>
    /\ Len(requests) = 1
    /\ exitCode = 0

\* C10: whatever the GET's outcome, what fetchTokensFromCoinGecko hands to
\* the transformer is something the transformer can walk through: the
\* transformer does not throw and the run reaches the write.
C10_TransformNeverThrows ==
  (pc = "exited" /\ outcome # None) =>
    /\ stderr = << >> \/ stderr[Len(stderr)] # Str(<<"TypeError">>)
    /\ Wrote

\* two envelopes agree on every field but the timestamp
SameButTimestamp(a, b) ==
  /\ DOMAIN a = DOMAIN b
  /\ \A k \in DOMAIN a \ {"timestamp"} : a[k] = b[k]

\* a second run had the key and the upstream answer of the first, and both wrote
Repeated ==
  /\ run = 2
  /\ Wrote
  /\ prev.file # None
  /\ prev.chainKey = chainKey
  /\ prev.outcome = outcome

\* C6: two runs with the same key and the same upstream data write files
\* of the same name that agree in every field except the timestamp.
C6_Idempotent ==
  Repeated =>
    /\ prev.fileName = outputFileName(chainKey)
    /\ SameButTimestamp(JSONparse(prev.file).props, Parsed)
    /\ "timestamp" \in DOMAIN Parsed

C6_Witness ==
  /\ Repeated
  /\ outcome.type = "fulfilled"
  /\ Len(Parsed.tokens.items) = 1
  /\ JSONparse(prev.file).props.timestamp # Parsed.timestamp

\* C7: under a supported key the tokens read back from the written file are
\* the transformer's output for the same records and config: same length,
\* same order, same fields and values in every token.
C7_RoundTrip ==
  (Wrote /\ Supported /\ outcome.type = "fulfilled") =>
    Parsed.tokens = transformCoinGeckoData(outcome.data, CHAIN_CONFIG.props[chainKey.chars])

\* C8: at the write of a run under a supported key k, the envelope handed
\* to the writer has k's display name, the logo placeholder, keywords
\* [k, "tokenlist"], version 1.0.0, the time of the write as timestamp (not
\* earlier than the one set at construction) and the transformer's output
\* as tokens; its serialisation becomes the content of k-tokenlist.json,
\* whatever that file held before, and no other file changes.
C8_EnvelopeWritten ==
  [][ (pc = "awaiting" /\ pc' = "exited" /\ Supported /\ trace'[Len(trace')] = "write") =>
        LET env == tokenListBase'.props
            file == chainKey.chars \o <<"-tokenlist.json">>
            given == IF outcome'.type = "rejected" THEN Arr(<< >>) ELSE outcome'.data
        IN /\ env.name = Str(<<DocName[chainKey.chars]>>)
           /\ env.logoURI = Str(<<"https://example.com/logo.png">>)
           /\ env.keywords = Arr(<<chainKey, Str(<<"tokenlist">>)>>)
           /\ env.version = Obj([major |-> Num(1), minor |-> Num(0), patch |-> Num(0)])
           /\ env.timestamp = toISOString(now)
           /\ env.timestamp.instant >= tokenListBase.props.timestamp.instant
           /\ env.tokens = transformCoinGeckoData(given, CHAIN_CONFIG.props[chainKey.chars])
           /\ file \in DOMAIN fs'
           /\ fs'[file] = JSONstringify(tokenListBase', 2)
           /\ JSONparse(fs'[file]).props.timestamp = toISOString(now)
           /\ \A f \in DOMAIN fs \ {file} : f \in DOMAIN fs' /\ fs'[f] = fs[f]
    ]_vars

C8_Witness ==
  /\ Wrote
  /\ run = 2
  /\ chainKey = Str(<<"bsc">>)
  /\ prev.file # None
  /\ prev.fileName = outputFileName(chainKey)
  /\ OutFile # prev.file
  /\ Parsed.timestamp = toISOString(1)
  /\ Len(Parsed.tokens.items) = 1
  /\ DOMAIN fs = { <<"bsc", "-tokenlist.json">> }

\* C9: without an argument the run is a run for base (chainId 8453, slug
\* base, file base-tokenlist.json); with a supported key, that key's row
\* gives the slug of the GET, the chainId of the tokens and the name of
\* the envelope.
C9_DefaultAndOwnConfig ==
  LET key == IF argv2 = Undefined THEN <<"base">> ELSE argv2.chars
  IN (pc # "start" /\ key \in SupportedKeys) =>
       /\ chainKey = Str(key)
       /\ requests = <<Str(<<"https://api.coingecko.com/api/v3/coins/list?platform=",
                             DocSlug[key]>>)>>
       /\ Wrote =>
            /\ ToStr(outputFileName(chainKey)) = <<key[1], "-tokenlist.json">>
            /\ Parsed.name = Str(<<DocName[key]>>)
            /\ \A i \in 1..Len(Parsed.tokens.items) :
                 Parsed.tokens.items[i].props.chainId = Num(DocChainId[key])

C9_Witness ==
  /\ argv2 = Undefined
  /\ Wrote
  /\ <<"base", "-tokenlist.json">> \in DOMAIN fs
  /\ requests = <<Str(<<"https://api.coingecko.com/api/v3/coins/list?platform=", "base">>)>>
  /\ Len(Parsed.tokens.items) = 1
  /\ Parsed.tokens.items[1].props.chainId = Num(8453)
====
